---------------------------- MODULE Spec2Model ----------------------------
(***************************************************************************)
(* Model of the Coinbase candle ETL core: transform.py (is_valid,          *)
(* transform_candle, transform_product_data), load.py (the candles table,  *)
(* get_last_timestamp, insert_candles, get_counts), fetch.py               *)
(* (fetch_candles) and pipeline.py (run).                                  *)
(*                                                                         *)
(* Numbers.  Raw prices and volumes are whole numbers (exactly             *)
(* representable doubles).  avg_price and price_change are kept in         *)
(* hundredths and price_change_pct in ten-thousandths, the precisions the  *)
(* code rounds to.  NaN is the IEEE not-a-number that json parsing can     *)
(* produce; every comparison with it is false and arithmetic propagates it.*)
(* Half is the number 0.5, a json number that is no whole number; it only  *)
(* occurs as a raw timestamp.                                              *)
(*                                                                         *)
(* Time.  An ISO-8601 instant is the record [days, hh, mm, ss, tz]: the    *)
(* calendar date is kept as the day number since 1970-01-01, the time of   *)
(* day as printed, tz is the printed UTC designator.                       *)
(***************************************************************************)
EXTENDS Integers, Sequences, FiniteSets, Bags, TLC

\* ------------------------------------------------------------------ bounds
MaxBatch == 2
\* the longest raw candle tried on is_valid (the well-formed ones have 6 fields)
MaxArity == 7
MaxList  == 3
\* a magnitude far above any price or volume
Large == 2000000000

\* --------------------------------------------------------------- numbers
NaN == -999999

Half == -999998

IsNaN(x) == x = NaN

\* IEEE comparisons: false as soon as an operand is NaN; 0 < Half < 1
Lt(a, b) ==
    /\ ~IsNaN(a) /\ ~IsNaN(b)
    /\ IF a = Half THEN b # Half /\ b >= 1
       ELSE IF b = Half THEN a <= 0
       ELSE a < b
Le(a, b) ==
    /\ ~IsNaN(a) /\ ~IsNaN(b)
    /\ IF a = Half THEN b = Half \/ b >= 1
       ELSE IF b = Half THEN a <= 0
       ELSE a <= b
Gt(a, b) == Lt(b, a)
Ge(a, b) == Le(b, a)

Add(a, b) == IF IsNaN(a) \/ IsNaN(b) THEN NaN ELSE a + b
Sub(a, b) == IF IsNaN(a) \/ IsNaN(b) THEN NaN ELSE a - b

Abs(n) == IF n < 0 THEN -n ELSE n

\* int(x): truncation toward zero
int(x) == IF x = Half THEN 0 ELSE x

\* n/d with the digits after the last place cut off
RoundDown(n, d) == IF n < 0 THEN -(Abs(n) \div d) ELSE n \div d

\* n/d rounded to the nearest integer, ties to the even one (Python round)
RoundHalfEvenDiv(n, d) ==
    LET q == Abs(n) \div d
        r == Abs(n) % d
        m == IF 2 * r > d THEN q + 1
             ELSE IF 2 * r < d THEN q
             ELSE IF q % 2 = 0 THEN q ELSE q + 1
    IN  IF n < 0 THEN -m ELSE m

\* Python optional values: None, or a value
None == <<>>
Some(x) == <<x>>
IsNone(o) == o = <<>>
Val(o) == o[1]

\* ------------------------------------------------------------------ time
\* datetime.fromtimestamp(ts, tz=utc).isoformat()
\* (the microseconds are printed only when there are some)
IsoFormat(ts) ==
    IF ts = Half
    THEN [days |-> 0, hh |-> 0, mm |-> 0, ss |-> 0, us |-> 500000, tz |-> "+00:00"]
    ELSE [days |-> ts \div 86400,
          hh   |-> (ts % 86400) \div 3600,
          mm   |-> (ts % 3600) \div 60,
          ss   |-> ts % 60,
          tz   |-> "+00:00"]

\* the instant an ISO-8601 text denotes, as epoch seconds
\* (datetime.fromisoformat in insert_candles; the remote's reading of
\* the start and end request parameters)
ParseIso(s) ==
    IF "us" \in DOMAIN s THEN Half
    ELSE s.days * 86400 + s.hh * 3600 + s.mm * 60 + s.ss

\* ---------------------------------------------------------------- config
PRODUCTS == <<"BTC-USD", "ETH-USD">>
START_DATE == [days |-> 20409, hh |-> 0,  mm |-> 0,  ss |-> 0,  tz |-> "Z"]
END_DATE   == [days |-> 20416, hh |-> 23, mm |-> 59, ss |-> 59, tz |-> "Z"]
GRANULARITY == 3600

Products == {PRODUCTS[k] : k \in 1..Len(PRODUCTS)}

\* ------------------------------------------------------------- transform
\* is_valid with the timestamp test written ts < 0
is_valid_ts_strict(candle) ==
    IF Len(candle) # 6 THEN FALSE
    ELSE IF Lt(candle[1], 0) THEN FALSE
    ELSE IF \E p \in {candle[2], candle[3], candle[4], candle[5]} : Le(p, 0) THEN FALSE
    ELSE IF Lt(candle[6], 0) THEN FALSE
    ELSE IF Lt(candle[3], candle[2]) THEN FALSE
    ELSE TRUE

\* transform.is_valid: a raw candle is a sequence [ts, low, high, open, close, vol]
is_valid(candle) ==
    IF Len(candle) # 6 THEN FALSE
    ELSE LET ts    == candle[1]
             low   == candle[2]
             high  == candle[3]
             open_ == candle[4]
             close == candle[5]
             vol   == candle[6]
         IN  IF Le(ts, 0) THEN FALSE
             ELSE IF \E p \in {low, high, open_, close} : Le(p, 0) THEN FALSE
             ELSE IF Lt(vol, 0) THEN FALSE
             ELSE IF Lt(high, low) THEN FALSE
             ELSE TRUE

\* transform_candle raises (ValueError from datetime.fromtimestamp) on a
\* NaN timestamp, and on unpacking a candle that has not six elements
transform_raises(candle) == Len(candle) # 6 \/ IsNaN(candle[1])

\* transform_candle that unpacks the raw candle in the order of the table's
\* columns: timestamp, open, high, low, close, volume
transform_candle_by_column(candle, product) ==
    LET ts     == candle[1]
        open_  == candle[2]
        high   == candle[3]
        low    == candle[4]
        close  == candle[5]
        vol    == candle[6]
        sum    == Add(Add(high, low), Add(open_, close))
        change == Sub(close, open_)
    IN  [product          |-> product,
         timestamp        |-> int(ts),
         datetime         |-> IsoFormat(ts),
         open             |-> open_,
         high             |-> high,
         low              |-> low,
         close            |-> close,
         volume           |-> vol,
         \* round(sum / 4, 2), in hundredths
         avg_price        |-> IF IsNaN(sum) THEN NaN
                              ELSE RoundHalfEvenDiv(sum * 100, 4),
         \* round(change, 2), in hundredths
         price_change     |-> IF IsNaN(change) THEN NaN ELSE change * 100,
         \* round(change / open * 100, 4) if open else 0, in ten-thousandths
         price_change_pct |-> IF IsNaN(open_) \/ IsNaN(change) THEN NaN
                              ELSE IF open_ = 0 THEN 0
                              ELSE RoundHalfEvenDiv(change * 1000000, open_)]

\* transform.transform_candle
transform_candle(candle, product) ==
    LET ts     == candle[1]
        low    == candle[2]
        high   == candle[3]
        open_  == candle[4]
        close  == candle[5]
        vol    == candle[6]
        sum    == Add(Add(high, low), Add(open_, close))
        change == Sub(close, open_)
    IN  [product          |-> product,
         timestamp        |-> int(ts),
         datetime         |-> IsoFormat(ts),
         open             |-> open_,
         high             |-> high,
         low              |-> low,
         close            |-> close,
         volume           |-> vol,
         \* round(sum / 4, 2), in hundredths
         avg_price        |-> IF IsNaN(sum) THEN NaN
                              ELSE RoundHalfEvenDiv(sum * 100, 4),
         \* round(change, 2), in hundredths
         price_change     |-> IF IsNaN(change) THEN NaN ELSE change * 100,
         \* round(change / open * 100, 4) if open else 0, in ten-thousandths
         price_change_pct |-> IF IsNaN(open_) \/ IsNaN(change) THEN NaN
                              ELSE IF open_ = 0 THEN 0
                              ELSE RoundHalfEvenDiv(change * 1000000, open_)]

\* the list comprehension without its condition
SelectAll(s) == s

\* [c for c in raw_candles if is_valid(c)]
RECURSIVE SelectValid(_)
SelectValid(s) ==
    IF s = <<>> THEN <<>>
    ELSE IF is_valid(Head(s)) THEN <<Head(s)>> \o SelectValid(Tail(s))
    ELSE SelectValid(Tail(s))

\* list.sort(key=timestamp): stable insertion of x into a sorted sequence
RECURSIVE InsertSorted(_, _)
InsertSorted(sorted, x) ==
    IF sorted = <<>> THEN <<x>>
    ELSE IF x.timestamp < Head(sorted).timestamp THEN <<x>> \o sorted
    ELSE <<Head(sorted)>> \o InsertSorted(Tail(sorted), x)

\* the list left in the order of the answer
Unsorted(s) == s

RECURSIVE SortByTimestamp(_)
SortByTimestamp(s) ==
    IF s = <<>> THEN <<>>
    ELSE InsertSorted(SortByTimestamp(SubSeq(s, 1, Len(s) - 1)), s[Len(s)])

\* a validator that raises on a candle it rejects
raises_on_rejected(raw_candles) ==
    \E k \in 1..Len(raw_candles) : ~is_valid(raw_candles[k])

\* transform.transform_product_data; raises when transform_candle does
transform_product_raises(raw_candles) ==
    LET valid == SelectValid(raw_candles)
    IN  \E k \in 1..Len(valid) : transform_raises(valid[k])

\* the candles labelled with the first configured product, whatever the
\* product asked for
transform_product_data_first(raw_candles, product) ==
    LET valid  == SelectValid(raw_candles)
        result == [k \in 1..Len(valid) |-> transform_candle(valid[k], PRODUCTS[1])]
    IN  SortByTimestamp(result)

\* transform.transform_product_data: filter, transform, sort
transform_product_data(raw_candles, product) ==
    LET valid  == SelectValid(raw_candles)
        result == [k \in 1..Len(valid) |-> transform_candle(valid[k], product)]
    IN  SortByTimestamp(result)

\* ------------------------------------------------------------------ load
\* The candles table is a bag of rows; PRIMARY KEY (product, timestamp).
SameKey(r, c) == r.product = c.product /\ r.timestamp = c.timestamp

\* the row insert_candles builds from a candle dict
RowOf(c) ==
    [product |-> c.product, timestamp |-> c.timestamp,
     datetime |-> ParseIso(c.datetime),
     open |-> c.open, high |-> c.high, low |-> c.low, close |-> c.close,
     volume |-> c.volume, avg_price |-> c.avg_price,
     price_change |-> c.price_change,
     price_change_pct |-> c.price_change_pct]

\* a plain INSERT into a table without the primary key
InsertPlain(tbl, row) == tbl (+) SetToBag({row})

\* INSERT OR IGNORE: a conflicting row is left as it is
InsertOrIgnore(tbl, row) ==
    IF \E r \in BagToSet(tbl) : SameKey(r, row) THEN tbl
    ELSE tbl (+) SetToBag({row})

\* the conflicting row is replaced, but a second copy is added as well
InsertAndReplace(tbl, row) ==
    LET conflict == {r \in BagToSet(tbl) : SameKey(r, row)}
        kept     == [r \in BagToSet(tbl) \ conflict |-> tbl[r]]
    IN  IF conflict = {} THEN kept (+) SetToBag({row})
        ELSE kept (+) SetToBag({row}) (+) SetToBag({row})

\* DELETE FROM candles WHERE product = ?, then a plain INSERT
DeleteProductAndInsert(tbl, row) ==
    LET kept == [r \in {q \in BagToSet(tbl) : q.product # row.product} |-> tbl[r]]
    IN  kept (+) SetToBag({row})

\* the table is emptied before the row is inserted
TruncateAndInsert(tbl, row) == SetToBag({row})

\* INSERT OR REPLACE INTO candles ... of one row
InsertOrReplace(tbl, row) ==
    LET conflict == {r \in BagToSet(tbl) : SameKey(r, row)}
        kept     == [r \in BagToSet(tbl) \ conflict |-> tbl[r]]
    IN  kept (+) SetToBag({row})

\* conn.executemany: the statement runs once per row, in order
RECURSIVE ExecuteMany(_, _)
ExecuteMany(tbl, rows) ==
    IF rows = <<>> THEN tbl
    ELSE ExecuteMany(InsertOrReplace(tbl, Head(rows)), Tail(rows))

\* insert_candles that returns by how many rows the table has grown
insert_candles_new_rows(tbl, cs) ==
    LET rows == [k \in 1..Len(cs) |-> RowOf(cs[k])]
        done == ExecuteMany(tbl, rows)
    IN  [table |-> done, ret |-> BagCardinality(done) - BagCardinality(tbl)]

\* load.insert_candles: the table afterwards and the value returned
insert_candles(tbl, cs) ==
    IF cs = <<>> THEN [table |-> tbl, ret |-> 0]
    ELSE LET rows == [k \in 1..Len(cs) |-> RowOf(cs[k])]
         IN  [table |-> ExecuteMany(tbl, rows), ret |-> Len(rows)]

SetMax(S) == CHOOSE m \in S : \A x \in S : x <= m

\* get_last_timestamp whose query has lost its WHERE clause
get_last_timestamp_any_product(tbl, product) ==
    LET ts == {r.timestamp : r \in BagToSet(tbl)}
    IN  IF ts = {} THEN None
        ELSE IF SetMax(ts) # 0 THEN Some(SetMax(ts)) ELSE None

\* load.get_last_timestamp: SELECT MAX(timestamp) ... WHERE product = ?
get_last_timestamp(tbl, product) ==
    LET ts == {r.timestamp : r \in {q \in BagToSet(tbl) : q.product = product}}
    IN  IF ts = {} THEN None
        ELSE IF SetMax(ts) # 0 THEN Some(SetMax(ts)) ELSE None

\* load.get_counts: SELECT product, COUNT(*) ... GROUP BY product
get_counts(tbl) ==
    LET prods == {r.product : r \in BagToSet(tbl)}
    IN  [p \in prods |->
            BagCardinality([r \in {q \in BagToSet(tbl) : q.product = p} |-> tbl[r]])]


\* ----------------------------------------------------------------- fetch
\* Raw candles the remote may send: [ts, low, high, open, close, volume]
FirstHour  == ParseIso(START_DATE) + GRANULARITY
SecondHour == ParseIso(START_DATE) + 2 * GRANULARITY

RawCandles ==
    { <<FirstHour,  100, 200, 150, 180, 10>>,    \* valid
      <<SecondHour, 100, 200, 150, 180, 10>>,    \* valid, later bucket
      <<0,          100, 200, 150, 180, 10>> }   \* timestamp <= 0

\* json also parses the literal NaN: raw candles that carry one
JsonCandles ==
    { <<FirstHour,  100, 200, 150, 180, 10>>,    \* valid
      <<0,          100, 200, 150, 180, 10>>,    \* timestamp <= 0
      <<FirstHour,  NaN, 200, 150, 180, 10>>,    \* NaN low
      <<NaN,        100, 200, 150, 180, 10>>,    \* NaN timestamp
      <<Half,       100, 200, 150, 180, 10>> }   \* timestamp 0.5

\* the same bucket with another close: a revised candle
RevisedCandles ==
    { <<FirstHour,  100, 200, 150, 160, 10>> }

BatchesOf(S) == UNION {[1..n -> S] : n \in 0..MaxBatch}

\* fetch.fetch_candles: requests.get + raise_for_status + resp.json().
\* ok = FALSE is a transport failure or a non-success status (raises).
ResponsesOf(S) ==
    {[ok |-> FALSE, data |-> <<>>]} \cup {[ok |-> TRUE, data |-> b] : b \in BatchesOf(S)}

Responses == ResponsesOf(RawCandles)
JsonResponses == ResponsesOf(JsonCandles)

\* What the remote holds, per product (the environment of the program)
Remote ==
    [p \in Products |->
        IF p = PRODUCTS[1]
        THEN { <<FirstHour,  100, 200, 150, 180, 10>>,
               <<SecondHour, 100, 200, 150, 180, 10>> }
        ELSE { <<FirstHour,  100, 200, 150, 180, 10>> }]

\* the remote's candles of product p inside [start, end]
InWindow(p, start, end) ==
    {c \in Remote[p] : ParseIso(start) <= c[1] /\ c[1] <= ParseIso(end)}

\* resp is what a remote that follows its contract answers to the request:
\* a rejection when start > end, else the candles inside the window
IsWindowResponse(resp, p, start, end) ==
    IF ParseIso(start) > ParseIso(end) THEN ~resp.ok
    ELSE /\ resp.ok
         /\ Len(resp.data) = Cardinality(InWindow(p, start, end))
         /\ {resp.data[k] : k \in 1..Len(resp.data)} = InWindow(p, start, end)

\* -------------------------------------------------------------- pipeline
EXPLICIT_START == [days |-> 20409, hh |-> 2, mm |-> 0, ss |-> 0, tz |-> "Z"]
EARLY_END      == [days |-> 20409, hh |-> 1, mm |-> 0, ss |-> 0, tz |-> "Z"]

\* arguments a caller passes to run (<<>> and None are the defaults)
ProductArgs == {<<>>, <<PRODUCTS[2]>>}
StartArgs   == {None, Some(EXPLICIT_START)}
EndArgs     == {None, Some(EARLY_END)}

\* candles a caller may hand to insert_candles directly
CandleSet ==
    {transform_candle(c, p) :
        c \in {r \in RawCandles \cup RevisedCandles : is_valid(r)},
        p \in Products}

CandleBatches == BatchesOf(CandleSet)

VARIABLES
    candles,   \* the candles table: a bag of rows
    conn,      \* the run's store connection: "none", "open", "closed",
               \* "leaked" (a handle duckdb.connect opened and nothing closed)
    pc,        \* "idle", "loop" (inside run's for loop), "returned", "raised",
               \* "done" (the process of a run that returned has ended)
    args,      \* run's arguments after defaulting
    i,         \* index in args.products of the next product to process
    stats,     \* run's stats dict
    it,        \* the last loop iteration: request, response, outcome, table before
    rerun,     \* this run directly follows a returned incremental run, same arguments
    call,      \* the last direct insert_candles call: batch, return, table before
    sent,      \* the fetch_candles calls of this run, in order: the index of
               \* the product and whether the request succeeded
    aborted,   \* what the last run had reached when it raised, for the run that
               \* follows it: the pass, its outcome, the table before the pass
               \* and at the raise (kept by Abort only)
    source,    \* what this run has seen: raw candles answered, those is_valid
               \* accepts, the values insert_candles returned (totals)
    input,     \* the argument of the pure function under test
    output     \* its result, None before the call

vars == <<candles, conn, pc, args, i, stats, it, rerun, call, sent, aborted, source, input, output>>

EmptyTable == EmptyBag

NoIteration ==
    [index |-> 0, product |-> "", fetch_start |-> START_DATE, end |-> END_DATE,
     resp |-> [ok |-> TRUE, data |-> <<>>], outcome |-> "none",
     before |-> EmptyTable, stats_before |-> [fetched |-> 0, transformed |-> 0, loaded |-> 0]]

NoAbort ==
    [k |-> 0, products |-> <<>>, outcome |-> "none",
     before |-> EmptyTable, table |-> EmptyTable]

NothingSeen == [raw |-> 0, valid |-> 0, upserted |-> 0]

\* the candles of an answer that is_valid accepts
ValidCount(raw) == Cardinality({k \in 1..Len(raw) : is_valid(raw[k])})

NoCall == [op |-> "none", batch |-> <<>>, ret |-> 0, before |-> EmptyTable, repeat |-> FALSE]

DefaultArgs ==
    [products |-> PRODUCTS, start |-> None, end |-> END_DATE, incremental |-> TRUE]

\* an empty store, no run started
InitStore ==
    /\ candles = EmptyTable
    /\ conn = "none"
    /\ pc = "idle"
    /\ args = DefaultArgs
    /\ i = 1
    /\ stats = [fetched |-> 0, transformed |-> 0, loaded |-> 0]
    /\ it = NoIteration
    /\ rerun = FALSE
    /\ call = NoCall
    /\ sent = <<>>
    /\ aborted = NoAbort
    /\ source = NothingSeen

Init ==
    /\ InitStore
    /\ input = <<>>
    /\ output = None

\* plan_window that adds no second to the last stored timestamp
plan_window_last(tbl, product, start, incremental) ==
    IF ~IsNone(start) THEN Val(start)
    ELSE IF incremental
         THEN LET last == get_last_timestamp(tbl, product)
              IN  IF ~IsNone(last) THEN IsoFormat(Val(last))
                  ELSE START_DATE
         ELSE START_DATE

\* plan_window that tests incremental before the explicit start
plan_window_incremental_first(tbl, product, start, incremental) ==
    IF incremental
    THEN LET last == get_last_timestamp(tbl, product)
         IN  IF ~IsNone(last) THEN IsoFormat(Val(last) + 1)
             ELSE IF ~IsNone(start) THEN Val(start) ELSE START_DATE
    ELSE IF ~IsNone(start) THEN Val(start) ELSE START_DATE

\* plan_window that resumes from the store even on a full refresh
plan_window_always_resume(tbl, product, start, incremental) ==
    IF ~IsNone(start) THEN Val(start)
    ELSE LET last == get_last_timestamp(tbl, product)
         IN  IF ~IsNone(last) THEN IsoFormat(Val(last) + 1)
             ELSE START_DATE

\* plan_window that does not look at the store: every run starts at START_DATE
plan_window_from_config(tbl, product, start, incremental) ==
    IF ~IsNone(start) THEN Val(start) ELSE START_DATE

\* pipeline.run lines 35-45: the start of the fetch window of one product
plan_window(tbl, product, start, incremental) ==
    IF ~IsNone(start) THEN Val(start)
    ELSE IF incremental
         THEN LET last == get_last_timestamp(tbl, product)
              IN  IF ~IsNone(last) THEN IsoFormat(Val(last) + 1)
                  ELSE START_DATE
         ELSE START_DATE

\* break written for continue: the loop ends at the first empty answer
break_loop(idx, ps) == Len(ps) + 1

\* the loop stays at the product and asks again when the answer is empty
ask_again(idx, ps) == idx

\* pipeline.run lines 51-53: continue, on to the next product
skip_product(idx, ps) == idx + 1

\* an except clause around the loop body that logs and goes on
swallow == "loop"

\* pipeline.run lines 30-67: try/finally without except, the exception of a
\* step leaves run
propagate == "raised"

\* Faults of the store while get_connection runs
ConnectFaults == {"connect", "schema"}

\* load.get_connection: the handle run is left with. duckdb.connect raising
\* yields no handle; CREATE_TABLE or CREATE_INDEX raising leaves the handle
\* connect has opened, which get_connection does not close and run (the call
\* stands before its try) never sees.
get_connection(fault) ==
    IF fault = "connect" THEN "none"
    ELSE IF fault = "schema" THEN "leaked"
    ELSE "open"

\* pipeline.run lines 24-28: defaults, stats, get_connection
RunStart(products, start, end, incremental) ==
    /\ pc \in {"idle", "done"}
    /\ LET ps == IF products = <<>> THEN PRODUCTS ELSE products
           e  == IF IsNone(end) THEN END_DATE ELSE Val(end)
       IN  /\ args' = [products |-> ps, start |-> start, end |-> e,
                       incremental |-> incremental]
           /\ rerun' = /\ pc = "done"
                       /\ args.incremental /\ incremental
                       /\ IsNone(args.start) /\ IsNone(start)
                       /\ args.end = e
                       /\ args.products = ps
    /\ stats' = [fetched |-> 0, transformed |-> 0, loaded |-> 0]
    /\ conn' = "open"
    /\ i' = 1
    /\ pc' = "loop"
    /\ it' = NoIteration
    /\ call' = NoCall
    /\ sent' = <<>>
    /\ source' = NothingSeen
    /\ UNCHANGED <<candles, aborted, input, output>>

\* pipeline.run lines 31-61: one pass of the for loop, for the answer resp
\* of the remote; an exception leaves through finally (conn.close())
Iterate(resp) ==
    /\ pc = "loop"
    /\ i <= Len(args.products)
    /\ LET product     == args.products[i]
           fetch_start == plan_window(candles, product, args.start, args.incremental)
           req == [index |-> i, product |-> product, fetch_start |-> fetch_start,
                   end |-> args.end, resp |-> resp, outcome |-> "none",
                   before |-> candles, stats_before |-> stats]
           raw == resp.data
           fetched == [stats EXCEPT !.fetched = @ + Len(raw)]
       IN  IF ~resp.ok
           THEN /\ it' = [req EXCEPT !.outcome = "fetch_error"]
                /\ pc' = propagate
                /\ conn' = "closed"
                /\ UNCHANGED <<candles, stats, i, source>>
           ELSE IF raw = <<>>
           THEN /\ it' = [req EXCEPT !.outcome = "empty"]
                /\ stats' = fetched
                /\ i' = skip_product(i, args.products)
                /\ UNCHANGED <<candles, pc, conn, source>>
           ELSE IF transform_product_raises(raw)
           THEN /\ it' = [req EXCEPT !.outcome = "transform_error"]
                /\ stats' = fetched
                /\ pc' = propagate
                /\ conn' = "closed"
                /\ source' = [source EXCEPT !.raw = @ + Len(raw)]
                /\ UNCHANGED <<candles, i>>
           ELSE LET cleaned == transform_product_data(raw, product)
                    ins     == insert_candles(candles, cleaned)
                IN  /\ it' = [req EXCEPT !.outcome = "loaded"]
                    /\ candles' = ins.table
                    /\ stats' = [fetched EXCEPT
                                    !.transformed = @ + Len(cleaned),
                                    !.loaded = @ + ins.ret]
                    /\ i' = i + 1
                    /\ source' = [raw      |-> source.raw + Len(raw),
                                  valid    |-> source.valid + ValidCount(raw),
                                  upserted |-> source.upserted + ins.ret]
                    /\ UNCHANGED <<pc, conn>>
    /\ sent' = Append(sent, [index |-> i, ok |-> resp.ok])
    /\ UNCHANGED <<args, rerun, call, aborted, input, output>>

\* pipeline.run lines 63-69: get_counts, finally conn.close(), return stats
RunFinish ==
    /\ pc = "loop"
    /\ i > Len(args.products)
    /\ pc' = "returned"
    /\ conn' = "closed"
    /\ aborted' = NoAbort
    /\ UNCHANGED <<candles, args, i, stats, it, rerun, call, sent, source, input, output>>

\* pipeline.main lines 83-89: the caller logs the stats (or the exception
\* reaches the top level) and the process ends; its locals are gone
Exit ==
    /\ pc \in {"returned", "raised"}
    /\ pc' = IF pc = "returned" THEN "done" ELSE "idle"
    /\ args' = IF pc = "returned" THEN args ELSE DefaultArgs
    /\ conn' = "none"
    /\ i' = 1
    /\ stats' = [fetched |-> 0, transformed |-> 0, loaded |-> 0]
    /\ it' = NoIteration
    /\ rerun' = FALSE
    /\ sent' = <<>>
    /\ source' = NothingSeen
    /\ aborted' = NoAbort
    /\ UNCHANGED <<candles, call, input, output>>

\* a direct call of load.insert_candles (no run in progress)
Upsert(batch) ==
    /\ pc \in {"idle", "done"}
    /\ LET ins == insert_candles(candles, batch)
       IN  /\ candles' = ins.table
           /\ call' = [op |-> "upsert", batch |-> batch, ret |-> ins.ret,
                       before |-> candles,
                       repeat |-> pc = "idle" /\ call.op = "upsert" /\ call.batch = batch]
    \* the locals of a finished run are gone
    /\ pc' = "idle"
    /\ conn' = "none"
    /\ args' = DefaultArgs
    /\ i' = 1
    /\ stats' = [fetched |-> 0, transformed |-> 0, loaded |-> 0]
    /\ it' = NoIteration
    /\ rerun' = FALSE
    /\ sent' = <<>>
    /\ source' = NothingSeen
    /\ aborted' = NoAbort
    /\ UNCHANGED <<input, output>>

\* pipeline.run lines 24-28 when get_connection raises: run has not entered
\* its try, the exception reaches the caller
RunStartFails(products, start, end, incremental, fault) ==
    /\ pc \in {"idle", "done"}
    /\ fault \in ConnectFaults
    /\ args' = [products |-> IF products = <<>> THEN PRODUCTS ELSE products,
                start |-> start,
                end |-> IF IsNone(end) THEN END_DATE ELSE Val(end),
                incremental |-> incremental]
    /\ rerun' = FALSE
    /\ stats' = [fetched |-> 0, transformed |-> 0, loaded |-> 0]
    /\ conn' = get_connection(fault)
    /\ i' = 1
    /\ pc' = "raised"
    /\ it' = NoIteration
    /\ call' = NoCall
    /\ sent' = <<>>
    /\ source' = NothingSeen
    /\ UNCHANGED <<candles, aborted, input, output>>

\* pipeline.run lines 35-41 when the query of get_last_timestamp raises:
\* nothing is fetched, the exception leaves through finally
PlanFails ==
    /\ pc = "loop"
    /\ i <= Len(args.products)
    /\ IsNone(args.start) /\ args.incremental
    /\ it' = [NoIteration EXCEPT !.index = i, !.product = args.products[i],
                                 !.end = args.end, !.outcome = "plan_error",
                                 !.before = candles, !.stats_before = stats]
    /\ pc' = propagate
    /\ conn' = "closed"
    /\ UNCHANGED <<candles, args, i, stats, rerun, call, sent, aborted, source, input, output>>

\* pipeline.run lines 31-60 when executemany raises at its k-th row: the
\* rows before it are written, the exception leaves through finally
WriteFails(resp, k) ==
    /\ pc = "loop"
    /\ i <= Len(args.products)
    /\ resp.ok /\ resp.data # <<>>
    /\ ~transform_product_raises(resp.data)
    /\ LET product     == args.products[i]
           fetch_start == plan_window(candles, product, args.start, args.incremental)
           cleaned     == transform_product_data(resp.data, product)
           rows        == [n \in 1..Len(cleaned) |-> RowOf(cleaned[n])]
       IN  /\ k \in 1..Len(cleaned)
           /\ it' = [index |-> i, product |-> product, fetch_start |-> fetch_start,
                     end |-> args.end, resp |-> resp, outcome |-> "write_error",
                     before |-> candles, stats_before |-> stats]
           /\ candles' = ExecuteMany(candles, SubSeq(rows, 1, k - 1))
           /\ stats' = [stats EXCEPT !.fetched = @ + Len(resp.data),
                                     !.transformed = @ + Len(cleaned)]
    /\ source' = [source EXCEPT !.raw = @ + Len(resp.data),
                                !.valid = @ + ValidCount(resp.data)]
    /\ pc' = propagate
    /\ conn' = "closed"
    /\ sent' = Append(sent, [index |-> i, ok |-> TRUE])
    /\ UNCHANGED <<args, i, rerun, call, aborted, input, output>>

\* run.py main lines 97-108 after a pass has raised: the error is logged and
\* the process exits 1, the store staying as the run left it; what the run
\* had reached is kept for the run that follows
Abort ==
    /\ pc = "raised"
    /\ it.outcome # "none"
    /\ pc' = "idle"
    /\ args' = DefaultArgs
    /\ conn' = "none"
    /\ i' = 1
    /\ stats' = [fetched |-> 0, transformed |-> 0, loaded |-> 0]
    /\ it' = NoIteration
    /\ rerun' = FALSE
    /\ sent' = <<>>
    /\ source' = NothingSeen
    /\ aborted' = [k |-> it.index, products |-> args.products, outcome |-> it.outcome,
                   before |-> it.before, table |-> candles]
    /\ UNCHANGED <<candles, call, input, output>>

Next ==
    \/ \E products \in ProductArgs, start \in StartArgs, end \in EndArgs,
          incremental \in BOOLEAN : RunStart(products, start, end, incremental)
    \/ \E resp \in Responses : Iterate(resp)
    \/ RunFinish
    \/ Exit
    \/ \E batch \in CandleBatches : Upsert(batch)

Spec == Init /\ [][Next]_vars

\* The default runs (incremental or full refresh) over answers that may
\* carry NaN values
NextJson ==
    \/ \E incremental \in BOOLEAN : RunStart(<<>>, None, None, incremental)
    \/ \E resp \in JsonResponses : Iterate(resp)
    \/ RunFinish
    \/ Exit

SpecJson == Init /\ [][NextJson]_vars

\* The default runs with a store that may fail and answers on which
\* transform_candle may raise
FaultCandles ==
    { <<FirstHour,  100, 200, 150, 180, 10>>,
      <<SecondHour, 100, 200, 150, 180, 10>>,
      <<NaN,        100, 200, 150, 180, 10>> }

FaultResponses == ResponsesOf(FaultCandles)

NextFaults ==
    \/ \E products \in ProductArgs, incremental \in BOOLEAN :
          RunStart(products, None, None, incremental)
    \/ \E products \in ProductArgs, incremental \in BOOLEAN, fault \in ConnectFaults :
          RunStartFails(products, None, None, incremental, fault)
    \/ \E resp \in FaultResponses : Iterate(resp)
    \/ PlanFails
    \/ \E resp \in FaultResponses, k \in 1..MaxBatch : WriteFails(resp, k)
    \/ RunFinish
    \/ Exit
    \/ Abort

SpecFaults == Init /\ [][NextFaults]_vars

\* ------------------------------------------------- is_valid on its own
TsInputs     == {-1, 0, Half, FirstHour, NaN}
PriceInputs  == {-1, 0, 100, Large, NaN}
VolumeInputs == {-1, 0, 10, Large, NaN}

\* raw candles of 5 to MaxArity fields, every field over its inputs
SixFields ==
    {<<ts, low, high, open_, close, vol>> :
        ts \in TsInputs, low \in PriceInputs, high \in PriceInputs,
        open_ \in PriceInputs, close \in PriceInputs, vol \in VolumeInputs}

RawInputs ==
    SixFields
    \cup {SubSeq(c, 1, 5) : c \in SixFields}
    \cup {c \o [k \in 1..n |-> 0] : c \in SixFields, n \in 1..(MaxArity - 6)}

InitValidate ==
    /\ InitStore
    /\ input \in RawInputs
    /\ output = None

\* a call of transform.is_valid
Validate ==
    /\ IsNone(output)
    /\ output' = Some(is_valid(input))
    /\ UNCHANGED <<candles, conn, pc, args, i, stats, it, rerun, call, sent, aborted, source, input>>

NextValidate == Validate

SpecValidate == InitValidate /\ [][NextValidate]_vars

\* ------------------------------------ transform_product_data on its own
\* raw candles of an answer: two buckets, a revision of the first, a
\* rejected one, a timestamp int() truncates, one transform_candle raises on
ListCandles ==
    { <<FirstHour,  100, 200, 150, 180, 10>>,
      <<SecondHour, 100, 200, 150, 180, 10>>,
      <<FirstHour,  100, 200, 150, 160, 10>>,
      <<0,          100, 200, 150, 180, 10>>,
      <<Half,       100, 200, 150, 180, 10>>,
      <<NaN,        100, 200, 150, 180, 10>> }

RawLists == UNION {[1..n -> ListCandles] : n \in 0..MaxList}

InitTransform ==
    /\ InitStore
    /\ input \in RawLists
    /\ output = None

\* a call of transform.transform_product_data
TransformProduct(product) ==
    /\ IsNone(output)
    /\ output' = IF transform_product_raises(input)
                 THEN Some([raised |-> TRUE, result |-> <<>>])
                 ELSE Some([raised |-> FALSE,
                            result |-> transform_product_data(input, product)])
    /\ UNCHANGED <<candles, conn, pc, args, i, stats, it, rerun, call, sent, aborted, source, input>>

NextTransform == \E product \in Products : TransformProduct(product)

SpecTransform == InitTransform /\ [][NextTransform]_vars

\* ----------------------------------------------- transform_candle on its own
EXAMPLE_TS   == 1700000000
CandleTs     == {EXAMPLE_TS, Half}
CandlePrices == {0, 100, 128, 129, 150, 180, 200, NaN}

\* six-field raw candles on which transform_candle returns
CandleInputs ==
    {<<ts, low, high, open_, close, 10>> :
        ts \in CandleTs, low \in CandlePrices, high \in CandlePrices,
        open_ \in CandlePrices, close \in CandlePrices}

InitCandle ==
    /\ InitStore
    /\ input \in CandleInputs
    /\ output = None

\* a call of transform.transform_candle
TransformCandle(product) ==
    /\ IsNone(output)
    /\ ~transform_raises(input)
    /\ output' = Some(transform_candle(input, product))
    /\ UNCHANGED <<candles, conn, pc, args, i, stats, it, rerun, call, sent, aborted, source, input>>

NextCandle == \E product \in Products : TransformCandle(product)

SpecCandle == InitCandle /\ [][NextCandle]_vars


\* ================================================================ claims
Rows(tbl) == BagToSet(tbl)
RowsOfProduct(tbl, p) == {r \in Rows(tbl) : r.product = p}
Ran == it.outcome # "none"
Upserted == call.op = "upsert"

\* C1. Idempotent upsert: an insert_candles call that repeats the batch of
\* the call right before it leaves the table, and the per-product counts of
\* get_counts, as the first call left them.
C1_IdempotentUpsert ==
    (Upserted /\ call.repeat) =>
        /\ candles = call.before
        /\ get_counts(candles) = get_counts(call.before)

\* a batch with two different candles of one key was upserted twice in a row
\* into a store that held rows
C1_Witness ==
    /\ Upserted /\ call.repeat
    /\ Len(call.batch) >= 2
    /\ SameKey(call.batch[1], call.batch[2])
    /\ call.batch[1] # call.batch[2]
    /\ Cardinality(Rows(candles)) >= 2

\* C2. Composite-key replace: upserting one Candle whose (product, timestamp)
\* is already stored with another close leaves exactly one row for that key,
\* holding the new Candle's value in every column, and get_counts unchanged.
C2_Conflict ==
    /\ Upserted
    /\ Len(call.batch) = 1
    /\ \E r \in Rows(call.before) :
          SameKey(r, call.batch[1]) /\ r.close # call.batch[1].close

C2_CompositeKeyReplace ==
    C2_Conflict =>
        LET c == call.batch[1]
        IN  /\ {r \in Rows(candles) : SameKey(r, c)} = {RowOf(c)}
            /\ candles[RowOf(c)] = 1
            /\ \A f \in {"datetime", "open", "high", "low", "close", "volume",
                         "avg_price", "price_change", "price_change_pct"} :
                  \A r \in Rows(candles) : SameKey(r, c) => r[f] = RowOf(c)[f]
            /\ get_counts(candles) = get_counts(call.before)

\* the replaced row differed in close and in the derived fields
C2_Witness ==
    /\ C2_Conflict
    /\ \E r \in Rows(call.before) :
          /\ SameKey(r, call.batch[1])
          /\ r.avg_price # call.batch[1].avg_price
          /\ r.price_change_pct # call.batch[1].price_change_pct
    /\ Cardinality(Rows(call.before)) >= 2

\* C3. Key uniqueness: the table never holds two rows of one (product,
\* timestamp), and after a write the row of every key written is the one
\* written last for that key; the other rows are those of the table before.
UniqueKeys(tbl) ==
    \A r \in Rows(tbl) :
        /\ tbl[r] = 1
        /\ \A q \in Rows(tbl) : SameKey(r, q) => r = q

LatestWins(written, before) ==
    \A r \in Rows(candles) :
        LET ks == {k \in 1..Len(written) : SameKey(RowOf(written[k]), r)}
        IN  IF ks = {} THEN r \in Rows(before)
            ELSE r = RowOf(written[SetMax(ks)])

C3_KeyUniqueness ==
    /\ UniqueKeys(candles)
    /\ Upserted => LatestWins(call.batch, call.before)
    /\ it.outcome = "loaded" =>
          LatestWins(transform_product_data(it.resp.data, it.product), it.before)

\* a batch carrying one key twice, with different values, went into a store
\* that already held that key
C3_Witness ==
    /\ Upserted
    /\ Len(call.batch) >= 2
    /\ SameKey(call.batch[1], call.batch[2])
    /\ call.batch[1].close # call.batch[2].close
    /\ \E r \in Rows(call.before) : SameKey(r, call.batch[1])
    /\ ~call.repeat

\* C4. Invalid candles never reach the store: every row has timestamp > 0,
\* open, high, low, close > 0, volume >= 0 and high >= low.
C4_StoredRowsValid ==
    \A r \in Rows(candles) :
        /\ Gt(r.timestamp, 0)
        /\ Gt(r.open, 0) /\ Gt(r.high, 0) /\ Gt(r.low, 0) /\ Gt(r.close, 0)
        /\ Ge(r.volume, 0)
        /\ Ge(r.high, r.low)

\* C5. Validation boundary: is_valid is false exactly when the arity is not
\* 6, timestamp <= 0, one of open/high/low/close <= 0, volume < 0 or
\* high < low.
Rejected(c) ==
    \/ Len(c) # 6
    \/ Le(c[1], 0)
    \/ Le(c[4], 0) \/ Le(c[3], 0) \/ Le(c[2], 0) \/ Le(c[5], 0)
    \/ Lt(c[6], 0)
    \/ Lt(c[3], c[2])

C5_ValidationBoundary ==
    ~IsNone(output) => (Val(output) = FALSE <=> Rejected(input))

\* a candle with a price and a volume of large magnitude was accepted
C5_Witness ==
    /\ ~IsNone(output)
    /\ Val(output) = TRUE
    /\ Len(input) = 6
    /\ input[3] = Large /\ input[6] = Large

\* C6. Incremental window: with no explicit start and incremental = true the
\* fetch starts one second after the largest timestamp stored for the
\* product, and at START_DATE when nothing is stored for it.
C6_Incremental == Ran /\ IsNone(args.start) /\ args.incremental

C6_IncrementalWindow ==
    C6_Incremental =>
        LET ts == {r.timestamp : r \in RowsOfProduct(it.before, it.product)}
        IN  IF ts = {} THEN it.fetch_start = START_DATE
            ELSE /\ ParseIso(it.fetch_start) = SetMax(ts) + 1
                 /\ it.fetch_start = IsoFormat(SetMax(ts) + 1)

\* an incremental run planned the window of a product with stored rows
C6_Witness ==
    /\ C6_Incremental
    /\ Cardinality(RowsOfProduct(it.before, it.product)) >= 2
    /\ it.fetch_start # START_DATE

\* C7. Explicit start wins: with an explicit start every fetch of the run
\* uses exactly that start.
C7_ExplicitStartWins ==
    (Ran /\ ~IsNone(args.start)) => it.fetch_start = Val(args.start)

\* an incremental run with an explicit start reached a product with stored rows
C7_Witness ==
    /\ Ran /\ ~IsNone(args.start)
    /\ args.incremental
    /\ it.index = 2
    /\ RowsOfProduct(it.before, it.product) # {}

\* C8. Full refresh: with no explicit start and incremental = false every
\* fetch starts at START_DATE.
C8_FullRefresh ==
    (Ran /\ IsNone(args.start) /\ ~args.incremental) => it.fetch_start = START_DATE

\* a full refresh fetched a product that already had rows
C8_Witness ==
    /\ Ran /\ IsNone(args.start) /\ ~args.incremental
    /\ RowsOfProduct(it.before, it.product) # {}

\* C9. Empty fetch short-circuit: an empty answer adds nothing to transformed
\* and loaded, writes nothing, raises nothing, and the loop goes on to the
\* next product.
C9_EmptyAnswer == Ran /\ it.resp.ok /\ it.resp.data = <<>>

C9_EmptyFetchShortCircuit ==
    C9_EmptyAnswer =>
        /\ it.outcome = "empty"
        /\ stats.transformed = it.stats_before.transformed
        /\ stats.loaded = it.stats_before.loaded
        /\ stats.fetched = it.stats_before.fetched
        /\ candles = it.before
        /\ pc # "raised"
        /\ i = it.index + 1

\* the first of two products answered nothing and the loop stands at the second
C9_Witness ==
    /\ C9_EmptyAnswer
    /\ pc = "loop"
    /\ it.index = 1 /\ i = 2 /\ Len(args.products) = 2
    /\ it.before # EmptyTable

\* C10. Incremental re-run: in a run that directly follows a returned run,
\* both incremental, without explicit start, with the same end and products,
\* when the remote holds nothing that is not stored, the request starts at
\* last_timestamp + 1, the answer is empty and get_counts is unchanged.
NothingNew(tbl, p, end) ==
    \A c \in Remote[p] :
        c[1] <= ParseIso(end) => \E r \in RowsOfProduct(tbl, p) : r.timestamp = c[1]

C10_Rerun ==
    /\ Ran /\ rerun
    /\ NothingNew(it.before, it.product, it.end)
    /\ IsWindowResponse(it.resp, it.product, it.fetch_start, it.end)

C10_RerunFetchesNothing ==
    C10_Rerun =>
        /\ ~IsNone(get_last_timestamp(it.before, it.product))
        /\ it.fetch_start = IsoFormat(Val(get_last_timestamp(it.before, it.product)) + 1)
        /\ it.resp.ok /\ it.resp.data = <<>>
        /\ get_counts(candles) = get_counts(it.before)

\* C11: in every execution of run the store connection is acquired once at
\* the start, held through the loop, and released when run is left, on every
\* exit path: normal return, a raising step, and get_connection failing after
\* duckdb.connect has opened the handle (no handle stays open).
C11_ConnectionReleased ==
    /\ pc = "loop" => conn = "open"
    /\ pc \in {"returned", "raised"} => conn \in {"closed", "none"}

Errors == {"plan_error", "fetch_error", "transform_error", "write_error"}

\* C12: a step that raises while product k is processed ends the run there:
\* the exception leaves run (no stats are returned), the loop does not move
\* on, and the only thing that follows is the end of the process; nothing is
\* fetched, transformed or written for a later product.
C12_AbortOnFailure ==
    [][/\ it'.outcome \in Errors => pc' = "raised" /\ i' = it'.index
       /\ pc = "raised" =>
            /\ pc' = "idle"
            /\ candles' = candles
            /\ it' = NoIteration]_vars

C12_Witness ==
    /\ pc = "raised"
    /\ it.outcome = "write_error"
    /\ it.index = 1
    /\ Len(args.products) = 2
    /\ candles # it.before

Returned == ~IsNone(output) /\ ~Val(output).raised

\* the timestamps of consecutive elements of s satisfy lt
Ascending(s, lt(_, _)) ==
    \A k \in 1..(Len(s) - 1) : lt(s[k].timestamp, s[k + 1].timestamp)

\* no two valid candles of the list are of one second
DistinctSeconds(raw) ==
    \A j, k \in 1..Len(raw) :
        (j # k /\ is_valid(raw[j]) /\ is_valid(raw[k])) => int(raw[j][1]) # int(raw[k][1])

\* C13 as stated: for every list of raw candles, in any order,
\* transform_product_data returns a sequence strictly ascending by
\* timestamp: each element's timestamp is greater than the one before.
C13_StrictlyAscending ==
    Returned => Ascending(Val(output).result, LAMBDA a, b : a < b)

\* C13 amended: the sequence returned is ascending by timestamp, each
\* element's timestamp greater than or equal to the one before, and greater
\* when no two valid candles of the input have the same timestamp.
C13_Ascending ==
    Returned =>
        /\ Ascending(Val(output).result, LAMBDA a, b : a <= b)
        /\ DistinctSeconds(input) =>
                Ascending(Val(output).result, LAMBDA a, b : a < b)

\* a list that came later bucket first, with two candles of one bucket
C13_Witness ==
    /\ Returned
    /\ Len(input) = 3
    /\ \A k \in 1..3 : is_valid(input[k])
    /\ input[1][1] = SecondHour /\ input[2][1] = FirstHour
    /\ Val(output).result[1].timestamp = Val(output).result[2].timestamp
    /\ Val(output).result[1] # Val(output).result[2]

\* v is n/d (d > 0) rounded to the nearest integer, a tie to the even one
IsRounded(v, n, d) ==
    /\ 2 * Abs(v * d - n) <= d
    /\ 2 * Abs(v * d - n) = d => v % 2 = 0

\* C14: for every valid raw candle transform_candle yields avg_price =
\* round((open+high+low+close)/4, 2), price_change = round(close-open, 2) and
\* price_change_pct = round((close-open)/open*100, 4) (NaN where an operand is
\* NaN); [1700000000, 100, 200, 150, 180, 10] gives 157.5, 30.0 and 20.0.
\* avg_price and price_change are in hundredths, price_change_pct in
\* ten-thousandths.
C14_DerivedFields ==
    (~IsNone(output) /\ is_valid(input)) =>
        LET low   == input[2]
            high  == input[3]
            open_ == input[4]
            close == input[5]
            out   == Val(output)
        IN  /\ IF NaN \in {low, high, open_, close}
               THEN out.avg_price = NaN
               ELSE IsRounded(out.avg_price, (open_ + high + low + close) * 100, 4)
            /\ IF NaN \in {open_, close}
               THEN out.price_change = NaN /\ out.price_change_pct = NaN
               ELSE /\ out.price_change = (close - open_) * 100
                    /\ IsRounded(out.price_change_pct, (close - open_) * 1000000, open_)
            /\ input = <<EXAMPLE_TS, 100, 200, 150, 180, 10>> =>
                    /\ out.avg_price = 15750
                    /\ out.price_change = 3000
                    /\ out.price_change_pct = 200000

\* the example candle was transformed
C14_Witness ==
    /\ ~IsNone(output)
    /\ input = <<EXAMPLE_TS, 100, 200, 150, 180, 10>>
    /\ Val(output).avg_price = 15750

\* C15: transform maps the raw array [timestamp, low, high, open, close,
\* volume] by position and the upsert stores the values in the columns of
\* the same name: after a pass of run that loaded an answer, every valid raw
\* candle of the answer (the last one of its second) has a row of the
\* product with timestamp = raw[0], low = raw[1], high = raw[2],
\* open = raw[3], close = raw[4], volume = raw[5].
C15_PositionalMapping ==
    (Ran /\ it.outcome = "loaded") =>
        LET raw == it.resp.data
        IN  \A k \in 1..Len(raw) :
                (/\ is_valid(raw[k])
                 /\ ~\E j \in (k + 1)..Len(raw) :
                        is_valid(raw[j]) /\ int(raw[j][1]) = int(raw[k][1]))
                => \E r \in Rows(candles) :
                        /\ r.product = it.product
                        /\ r.timestamp = raw[k][1]
                        /\ r.low = raw[k][2]
                        /\ r.high = raw[k][3]
                        /\ r.open = raw[k][4]
                        /\ r.close = raw[k][5]
                        /\ r.volume = raw[k][6]

\* the second product's answer of two buckets was loaded
C15_Witness ==
    /\ Ran /\ it.outcome = "loaded"
    /\ it.product = PRODUCTS[2]
    /\ Len(it.resp.data) = 2
    /\ is_valid(it.resp.data[1]) /\ is_valid(it.resp.data[2])
    /\ it.resp.data[1][1] # it.resp.data[2][1]
    /\ Cardinality(RowsOfProduct(candles, PRODUCTS[2])) = 2

\* C16: in every store state and for every product get_last_timestamp
\* returns the greatest timestamp among the rows of the product, and none
\* exactly when the store has no row of the product.
C16_LastTimestamp ==
    \A p \in Products :
        LET rows == RowsOfProduct(candles, p)
            last == get_last_timestamp(candles, p)
        IN  IF rows = {} THEN IsNone(last)
            ELSE last = Some(SetMax({r.timestamp : r \in rows}))

\* C17: when run returns, fetched is the number of raw candles the source
\* answered over all products, transformed the number of those that pass
\* validation, loaded the total of the values insert_candles returned, and
\* loaded = transformed <= fetched.
C17_RunStatistics ==
    pc = "returned" =>
        /\ stats.fetched = source.raw
        /\ stats.transformed = source.valid
        /\ stats.loaded = source.upserted
        /\ stats.loaded = stats.transformed
        /\ stats.transformed <= stats.fetched

\* a run over two products returned; both answers held candles, and one of
\* them a rejected one
C17_Witness ==
    /\ pc = "returned"
    /\ it.index = 2
    /\ it.outcome = "loaded"
    /\ it.stats_before.loaded > 0
    /\ stats.loaded > it.stats_before.loaded
    /\ stats.transformed < stats.fetched

\* an answer with candles is_valid accepts and candles it rejects
Mixed(raw) ==
    /\ \E k \in 1..Len(raw) : is_valid(raw[k])
    /\ \E k \in 1..Len(raw) : ~is_valid(raw[k])

Keys(rows) == {<<r.product, r.timestamp>> : r \in rows}

\* C18: a rejected candle is not an error. When the answer fetched for a
\* product holds valid and invalid raw candles the pass raises nothing,
\* transform_product_data returns as many candles as the answer has valid
\* ones, every valid candle has its row afterwards and the rejected ones
\* have added none.
C18_RejectedIsNoError ==
    (Ran /\ it.resp.ok /\ Mixed(it.resp.data)) =>
        LET raw   == it.resp.data
            valid == {k \in 1..Len(raw) : is_valid(raw[k])}
        IN  /\ it.outcome = "loaded"
            /\ pc # "raised"
            /\ stats.fetched = it.stats_before.fetched + Len(raw)
            /\ stats.transformed = it.stats_before.transformed + Cardinality(valid)
            /\ Keys(Rows(candles)) =
                    Keys(Rows(it.before)) \cup {<<it.product, int(raw[k][1])>> : k \in valid}

\* an answer of a valid and a rejected candle was loaded
C18_Witness ==
    /\ Ran /\ it.outcome = "loaded"
    /\ Len(it.resp.data) = 2
    /\ ~is_valid(it.resp.data[1]) /\ is_valid(it.resp.data[2])
    /\ Keys(Rows(candles)) # Keys(Rows(it.before))

\* C19: no deletion. Whatever the step (a direct upsert, a pass of an
\* incremental or full-refresh run), every (product, timestamp) key the
\* store holds before it is held after it: rows are inserted or replaced in
\* place, never removed.
C19_NoDeletion ==
    [][\A r \in Rows(candles) : \E q \in Rows(candles') : SameKey(r, q)]_vars

\* a full refresh has replaced a row in place, next to another row of the
\* product that the answer did not mention
C19_Witness ==
    /\ Ran /\ it.outcome = "loaded"
    /\ ~args.incremental
    /\ Len(it.resp.data) = 1
    /\ \E r \in Rows(it.before), q \in Rows(candles) : SameKey(r, q) /\ r # q
    /\ Cardinality(RowsOfProduct(candles, it.product)) = 2

\* C20: insert_candles called with an empty sequence returns 0 and leaves
\* the store as it was; called with a non-empty sequence it returns the
\* length of the sequence.
C20_EmptyUpsertNoOp ==
    Upserted =>
        /\ call.batch = <<>> => call.ret = 0 /\ candles = call.before
        /\ call.batch # <<>> => call.ret = Len(call.batch)

\* insert_candles was called with no candle on a store that holds rows
C20_Witness ==
    /\ Upserted
    /\ call.batch = <<>>
    /\ call.ret = 0
    /\ candles # EmptyTable

\* C21: no retries. Within a run fetch_candles is called at most once for
\* each entry of the product list, in the order of the list, each call being
\* one request, and no call follows one that failed.
C21_NoRetries ==
    /\ Len(sent) <= Len(args.products)
    /\ \A j \in 1..Len(sent) : sent[j].index \in 1..Len(args.products)
    /\ \A j, k \in 1..Len(sent) : j < k => sent[j].index < sent[k].index
    /\ \A j \in 1..(Len(sent) - 1) : sent[j].ok

\* the request for the second product failed after an empty answer for the
\* first one
C21_Witness ==
    /\ pc = "raised"
    /\ Len(sent) = 2
    /\ sent[1].ok /\ ~sent[2].ok
    /\ it.outcome = "fetch_error"
    /\ it.stats_before.fetched = 0

\* C22: fetch precondition. Every call run makes to fetch_candles without
\* an explicit start has start <= end, whatever the store holds, whatever end
\* is and whether the run is incremental or not; so also when the last
\* stored timestamp of the product is at or beyond end.
C22_FetchPrecondition ==
    (Len(sent) > 0 /\ Ran /\ it.outcome # "plan_error" /\ IsNone(args.start)) =>
        ParseIso(it.fetch_start) <= ParseIso(it.end)

\* every raw candle of the answer has its timestamp inside [start, end]
AllInside(raw, start, end) ==
    \A k \in 1..Len(raw) :
        Le(ParseIso(start), raw[k][1]) /\ Le(raw[k][1], ParseIso(end))

\* C23: incremental runs do not touch old rows. In a run with incremental
\* and no explicit start, a pass whose answer holds only candles inside the
\* requested window leaves every row stored before the pass stored with the
\* same values; pass after pass, so does the run.
C23_IncrementalKeepsOldRows ==
    (/\ Ran /\ it.resp.ok
     /\ args.incremental /\ IsNone(args.start)
     /\ AllInside(it.resp.data, it.fetch_start, it.end))
    => \A r \in Rows(it.before) : CopiesIn(r, candles) = CopiesIn(r, it.before)

\* the second pass of an incremental run added a later candle to rows the
\* product already had, after the first pass had written rows too
C23_Witness ==
    /\ Ran /\ it.outcome = "loaded"
    /\ it.index = 2
    /\ args.incremental /\ IsNone(args.start)
    /\ AllInside(it.resp.data, it.fetch_start, it.end)
    /\ RowsOfProduct(it.before, it.product) # {}
    /\ it.stats_before.loaded > 0
    /\ Cardinality(Rows(candles)) > Cardinality(Rows(it.before))

\* the last timestamp a is not after b (none is before every timestamp)
NotAfter(a, b) == IsNone(a) \/ (~IsNone(b) /\ Val(a) <= Val(b))

\* C24: monotone watermark. In every step of any sequence of direct upserts
\* and runs, returning or aborting, get_last_timestamp of no product
\* decreases.
C24_MonotoneWatermark ==
    [][\A p \in Products :
          NotAfter(get_last_timestamp(candles, p), get_last_timestamp(candles', p))]_vars

\* a direct upsert of an older candle has left the product's last timestamp
\* where it was
C24_Witness ==
    /\ Upserted
    /\ Len(call.batch) = 1
    /\ get_last_timestamp(call.before, call.batch[1].product) = Some(SecondHour)
    /\ call.batch[1].timestamp = FirstHour
    /\ get_last_timestamp(candles, call.batch[1].product) = Some(SecondHour)
    /\ candles # call.before

\* C25: writes are confined to the requested products. A pass of a run over
\* the list L works on a product p of L, and every row it has inserted,
\* replaced or dropped has product = p: the rows of every other product, so
\* of every product not in L, are the same before and after.
C25_WritesConfined ==
    Ran =>
        /\ \E k \in 1..Len(args.products) : args.products[k] = it.product
        /\ \A r \in Rows(it.before) \cup Rows(candles) :
                r.product # it.product => CopiesIn(r, candles) = CopiesIn(r, it.before)

\* a run over the second product alone has written rows while the store
\* held rows of the first product
C25_Witness ==
    /\ Ran /\ it.outcome = "loaded"
    /\ args.products = <<PRODUCTS[2]>>
    /\ RowsOfProduct(it.before, PRODUCTS[1]) # {}
    /\ RowsOfProduct(candles, PRODUCTS[2]) # RowsOfProduct(it.before, PRODUCTS[2])

\* the start of the window that resumes product p from the rows of tbl
ResumeStart(tbl, p) ==
    IF RowsOfProduct(tbl, p) = {} THEN START_DATE
    ELSE IsoFormat(SetMax({r.timestamp : r \in RowsOfProduct(tbl, p)}) + 1)

\* the place of product p in the list ps, 0 when it is not there
PlaceOf(p, ps) ==
    IF \E n \in 1..Len(ps) : ps[n] = p
    THEN CHOOSE n \in 1..Len(ps) : ps[n] = p
    ELSE 0

\* a pass of the incremental run that follows a run which raised in pass k
Resumed ==
    /\ aborted.k > 0
    /\ Ran /\ it.outcome # "plan_error"
    /\ args.incremental /\ IsNone(args.start)

\* C26 as stated: no rollback on abort. When run has failed while processing
\* product k, the rows of the products before k stay in the store, so the
\* incremental run that follows resumes those products one second after
\* their new last timestamp, and product k one second after its last
\* timestamp as it was before the failed run.
C26_NoRollback ==
    Resumed =>
        LET place == PlaceOf(it.product, aborted.products)
        IN  /\ place \in 1..(aborted.k - 1) =>
                /\ \A r \in RowsOfProduct(aborted.table, it.product) :
                        CopiesIn(r, it.before) = CopiesIn(r, aborted.table)
                /\ it.fetch_start = ResumeStart(aborted.table, it.product)
            /\ place = aborted.k =>
                it.fetch_start = ResumeStart(aborted.before, it.product)

\* C26 amended: product k is resumed one second after its last timestamp as
\* the failed run has left it, which is the one before the failed run unless
\* the upsert of k's batch raised part-way: the rows written before the
\* failing one stay as well.
C26_NoRollbackOfRows ==
    Resumed =>
        LET place == PlaceOf(it.product, aborted.products)
        IN  /\ place \in 1..aborted.k =>
                /\ \A r \in RowsOfProduct(aborted.table, it.product) :
                        CopiesIn(r, it.before) = CopiesIn(r, aborted.table)
                /\ it.fetch_start = ResumeStart(aborted.table, it.product)
            /\ (place = aborted.k /\ aborted.outcome # "write_error") =>
                it.fetch_start = ResumeStart(aborted.before, it.product)

\* the run failed in its second pass, on the second row of the batch; the
\* run that follows has passed the first product and resumes the second one
\* after the row that was written
C26_Witness ==
    /\ Resumed
    /\ aborted.k = 2
    /\ aborted.outcome = "write_error"
    /\ RowsOfProduct(aborted.table, aborted.products[1]) # {}
    /\ it.index = 2
    /\ it.product = aborted.products[2]
    /\ it.fetch_start # ResumeStart(aborted.before, it.product)

=============================================================================
